---- MODULE Spec2Model ----
(***************************************************************************)
(* Model of load_wafer_dataset (src/src/utils/data_loader.py): the WM-811K *)
(* ingestion pipeline.  Strings are sequences of one-character strings so  *)
(* that str(), strip() and the class_map lookup are computed, not assumed. *)
(***************************************************************************)
EXTENDS Integers, Sequences, FiniteSets, TLC

VARIABLES file, pc, error, data, iterator, total, consumed,
          images, labels, metadata_rows, skipped_count, report, result

vars == <<file, pc, error, data, iterator, total, consumed,
          images, labels, metadata_rows, skipped_count, report, result>>

(***************************************************************************)
(* Bounds of the model.                                                    *)
(***************************************************************************)
MaxRecords == 3
MaxPad == 1

(***************************************************************************)
(* Strings.                                                                *)
(***************************************************************************)
s_none == <<"n", "o", "n", "e">>
s_Center == <<"C", "e", "n", "t", "e", "r">>
s_Donut == <<"D", "o", "n", "u", "t">>
s_EdgeLoc == <<"E", "d", "g", "e", "-", "L", "o", "c">>
s_EdgeRing == <<"E", "d", "g", "e", "-", "R", "i", "n", "g">>
s_Loc == <<"L", "o", "c">>
s_Nearfull == <<"N", "e", "a", "r", "-", "f", "u", "l", "l">>
s_Random == <<"R", "a", "n", "d", "o", "m">>
s_Scratch == <<"S", "c", "r", "a", "t", "c", "h">>
s_Bogus == <<"B", "o", "g", "u", "s">>
s_center == <<"c", "e", "n", "t", "e", "r">>
s_Edge_Loc == <<"E", "d", "g", "e", " ", "L", "o", "c">>
s_empty == << >>

\* The characters str.strip() removes when called without arguments.
Whitespace == {" ", "\t", "\n"}

RECURSIVE lstrip(_)
lstrip(s) == IF s # << >> /\ Head(s) \in Whitespace THEN lstrip(Tail(s)) ELSE s

RECURSIVE rstrip(_)
rstrip(s) ==
    IF s # << >> /\ s[Len(s)] \in Whitespace
    THEN rstrip(SubSeq(s, 1, Len(s) - 1))
    ELSE s

\* Mutant of strip: trims the left side only.
strip_LeftOnly(s) == lstrip(s)

\* str.strip()
strip(s) == rstrip(lstrip(s))

\* Decimal digits of a natural number, as str(int) prints them.
Digit(d) == <<"0", "1", "2", "3", "4", "5", "6", "7", "8", "9">>[d + 1]

RECURSIVE Digits(_)
Digits(n) == IF n < 10 THEN <<Digit(n)>> ELSE Digits(n \div 10) \o <<Digit(n % 10)>>

(***************************************************************************)
(* Python values that can sit inside a failureType container.              *)
(*   [tag |-> "str", s]      a str (or numpy.str_)                         *)
(*   [tag |-> "int", n]      an int                                        *)
(*   [tag |-> "None"]        None                                          *)
(*   [tag |-> "list", items] a nested list                                 *)
(*   [tag |-> "badstr"]      an object whose __str__ raises                *)
(***************************************************************************)
PyStrV(s) == [tag |-> "str", s |-> s]
PyIntV(n) == [tag |-> "int", n |-> n]
PyNoneV == [tag |-> "None"]
PyListV(items) == [tag |-> "list", items |-> items]
PyBadStr == [tag |-> "badstr"]

RECURSIVE StrRaises(_)
StrRaises(v) ==
    CASE v.tag = "badstr" -> TRUE
      [] v.tag = "list" -> \E i \in 1..Len(v.items) : StrRaises(v.items[i])
      [] OTHER -> FALSE

RECURSIVE PyStr(_)
RECURSIVE PyRepr(_)
RECURSIVE JoinRepr(_)

\* str(v) for a value whose __str__ does not raise
PyStr(v) ==
    CASE v.tag = "str" -> v.s
      [] v.tag = "int" -> Digits(v.n)
      [] v.tag = "None" -> <<"N", "o", "n", "e">>
      [] v.tag = "list" -> <<"[">> \o JoinRepr(v.items) \o <<"]">>

\* repr(v): what str(list) prints for each element
PyRepr(v) == IF v.tag = "str" THEN <<"'">> \o v.s \o <<"'">> ELSE PyStr(v)

JoinRepr(items) ==
    IF items = << >> THEN << >>
    ELSE IF Len(items) = 1 THEN PyRepr(items[1])
    ELSE PyRepr(items[1]) \o <<",", " ">> \o JoinRepr(Tail(items))

(***************************************************************************)
(* class_map, lines 39-49.                                                 *)
(***************************************************************************)
\* Mutant of class_map: the key of class 6 is misspelt "Near-Full".
class_map_Misspelt ==
    (s_none :> 0) @@ (s_Center :> 1) @@ (s_Donut :> 2) @@ (s_EdgeLoc :> 3) @@
    (s_EdgeRing :> 4) @@ (s_Loc :> 5) @@
    (<<"N", "e", "a", "r", "-", "F", "u", "l", "l">> :> 6) @@ (s_Random :> 7) @@
    (s_Scratch :> 8)

class_map ==
    (s_none :> 0) @@ (s_Center :> 1) @@ (s_Donut :> 2) @@ (s_EdgeLoc :> 3) @@
    (s_EdgeRing :> 4) @@ (s_Loc :> 5) @@ (s_Nearfull :> 6) @@ (s_Random :> 7) @@
    (s_Scratch :> 8)

(***************************************************************************)
(* Raw records.  A record is [shape, waferMap, failureType, lotName,       *)
(* waferIndex]; shape is "namedtuple", "dict" or "object"; a field the     *)
(* record does not carry is Absent, a field holding None is PyNoneV.       *)
(* A wafer map is [tag |-> "nested", dims] (a regular nesting of the given *)
(* shape; dims = << >> is a scalar) or [tag |-> "ragged"] (rows of unequal *)
(* length).  A failureType is a str value, [tag |-> "ndarray", items] (the *)
(* elements in flat order), [tag |-> "list", items], or any other value.   *)
(***************************************************************************)
Absent == [tag |-> "absent"]
Nested(dims) == [tag |-> "nested", dims |-> dims]
Ragged == [tag |-> "ragged"]
NdArrayV(items) == [tag |-> "ndarray", items |-> items]
PyTupleV(items) == [tag |-> "tuple", items |-> items]

Rec(shape, wm, ft, lot, idx) ==
    [shape |-> shape, waferMap |-> wm, failureType |-> ft,
     lotName |-> lot, waferIndex |-> idx]

\* getattr(record, name, default) and dict.get(name, default)
OrDefault(v, default) == IF v = Absent THEN default ELSE v

\* Lines 66-81: the four fields, or the AttributeError of line 69.
Extract(record) ==
    IF record.shape = "namedtuple" /\ record.waferMap # Absent
    THEN [raised |-> record.failureType = Absent,
          wafer_map |-> record.waferMap,
          failure_type |-> record.failureType,
          lot_name |-> OrDefault(record.lotName, PyStrV(s_empty)),
          wafer_index |-> OrDefault(record.waferIndex, PyIntV(0))]
    ELSE [raised |-> FALSE,
          wafer_map |-> OrDefault(record.waferMap, PyNoneV),
          failure_type |-> OrDefault(record.failureType, PyNoneV),
          lot_name |-> OrDefault(record.lotName, PyStrV(s_empty)),
          wafer_index |-> OrDefault(record.waferIndex, PyIntV(0))]

\* Line 89: np.array(wafer_map).  A ragged nesting raises ValueError under
\* numpy >= 1.24 and becomes a 1-D object array under older releases.
NpArray(wm) ==
    IF wm.tag = "ragged"
    THEN {[raised |-> TRUE, ndim |-> 0, shape |-> << >>],
          [raised |-> FALSE, ndim |-> 1, shape |-> <<2>>]}
    ELSE {[raised |-> FALSE, ndim |-> Len(wm.dims), shape |-> wm.dims]}

\* str(item) at lines 101, 108, 110
StrOf(item) ==
    IF StrRaises(item) THEN [kind |-> "raise", f_label |-> s_empty]
    ELSE [kind |-> "label", f_label |-> PyStr(item)]

\* Mutant of NormalizeFailureType: an empty nested list inside a list is
\* labelled "none" instead of being converted with str().
NormalizeFailureType_EmptyInnerNone(failure_type) ==
    CASE failure_type.tag = "ndarray" ->
           IF Len(failure_type.items) = 0
           THEN [kind |-> "label", f_label |-> s_none]
           ELSE StrOf(failure_type.items[1])
      [] failure_type.tag = "list" ->
           IF Len(failure_type.items) = 0
           THEN [kind |-> "label", f_label |-> s_none]
           ELSE LET item == failure_type.items[1] IN
                IF item.tag = "list"
                THEN IF Len(item.items) > 0 THEN StrOf(item.items[1])
                     ELSE [kind |-> "label", f_label |-> s_none]
                ELSE StrOf(item)
      [] failure_type.tag = "str" -> [kind |-> "label", f_label |-> failure_type.s]
      [] OTHER -> [kind |-> "reject", f_label |-> s_empty]

\* Lines 95-115: the raw label of a failureType, a rejection, or an exception.
NormalizeFailureType(failure_type) ==
    CASE failure_type.tag = "ndarray" ->
           IF Len(failure_type.items) = 0
           THEN [kind |-> "label", f_label |-> s_none]
           ELSE StrOf(failure_type.items[1])
      [] failure_type.tag = "list" ->
           IF Len(failure_type.items) = 0
           THEN [kind |-> "label", f_label |-> s_none]
           ELSE LET item == failure_type.items[1] IN
                IF item.tag = "list" /\ Len(item.items) > 0
                THEN StrOf(item.items[1])
                ELSE StrOf(item)
      [] failure_type.tag = "str" -> [kind |-> "label", f_label |-> failure_type.s]
      [] OTHER -> [kind |-> "reject", f_label |-> s_empty]

Skip(why) == [accepted |-> FALSE, why |-> why]

\* Mutant of Is2D: any array of at least two dimensions passes.
Is2D_AtLeast(arr) == arr.ndim >= 2

\* Line 91, negated
Is2D(arr) == arr.ndim = 2

\* Lines 91-135, once np.array has returned arr
AfterCoerce(ex, arr) ==
    IF arr.raised THEN Skip("exception")
    ELSE IF ~Is2D(arr) THEN Skip("ndim")
    ELSE LET n == NormalizeFailureType(ex.failure_type) IN
         IF n.kind = "raise" THEN Skip("exception")
         ELSE IF n.kind = "reject" THEN Skip("shape")
         ELSE LET f_label == strip(n.f_label) IN
              IF f_label \notin DOMAIN class_map THEN Skip("taxonomy")
              ELSE [accepted |-> TRUE, why |-> "ok",
                    wafer_map |-> arr,
                    label_idx |-> class_map[f_label],
                    row |-> [lotName |-> ex.lot_name,
                             waferIndex |-> ex.wafer_index,
                             failureType |-> f_label,
                             mapped_label |-> class_map[f_label]]]

\* Lines 65-139: what one iteration of the loop can do with a record.
RecordOutcomes(record) ==
    LET ex == Extract(record) IN
    IF ex.raised THEN {Skip("exception")}
    ELSE IF ex.wafer_map = PyNoneV \/ ex.failure_type = PyNoneV THEN {Skip("missing")}
    ELSE {AfterCoerce(ex, arr) : arr \in NpArray(ex.wafer_map)}

\* Mutant of AcceptSample: the metadata row is not recorded for class 0.
AcceptSample_RowDropped(imgs, lbls, rows, out) ==
    [images |-> Append(imgs, out.wafer_map),
     labels |-> Append(lbls, out.label_idx),
     metadata_rows |-> IF out.label_idx = 0 THEN rows ELSE Append(rows, out.row)]

\* Lines 126-135
AcceptSample(imgs, lbls, rows, out) ==
    [images |-> Append(imgs, out.wafer_map),
     labels |-> Append(lbls, out.label_idx),
     metadata_rows |-> Append(rows, out.row)]

\* Mutant of SkipRecord: the exception handler forgets to count.
SkipRecord_Uncounted(n, out) == IF out.why = "exception" THEN n ELSE n + 1

\* Mutant of SkipRecord: the unrecognized-shape branch forgets to count.
SkipRecord_ShapeUncounted(n, out) == IF out.why = "shape" THEN n ELSE n + 1

\* Lines 85, 92, 114, 121, 138
SkipRecord(n, out) == n + 1

(***************************************************************************)
(* Inputs: the files the path can name.                                    *)
(***************************************************************************)
RECURSIVE SeqsUpTo(_, _)
SeqsUpTo(S, n) ==
    IF n = 0 THEN {<< >>}
    ELSE LET shorter == SeqsUpTo(S, n - 1) IN
         shorter \cup {Append(q, x) : q \in {r \in shorter : Len(r) = n - 1}, x \in S}

Pads == SeqsUpTo({" ", "\n"}, MaxPad)

CanonicalLabels ==
    {s_none, s_Center, s_Donut, s_EdgeLoc, s_EdgeRing, s_Loc, s_Nearfull,
     s_Random, s_Scratch}

CoreStrings == CanonicalLabels \cup {s_Bogus, s_center, s_Edge_Loc, s_empty}

RawStrings == {l \o c \o r : l \in Pads, c \in CoreStrings, r \in Pads}

ScalarElems ==
    {PyStrV(s) : s \in RawStrings} \cup {PyIntV(0), PyIntV(12), PyNoneV, PyBadStr}

InnerLists ==
    {PyListV(<< >>)} \cup {PyListV(<<e>>) : e \in ScalarElems}
        \cup {PyListV(<<PyStrV(s), PyStrV(s_Loc)>>) : s \in CanonicalLabels}

FailureTypes ==
    {PyStrV(s) : s \in RawStrings}
        \cup {NdArrayV(<< >>)} \cup {NdArrayV(<<e>>) : e \in ScalarElems}
        \cup {NdArrayV(<<PyStrV(s), PyStrV(s_Loc)>>) : s \in CanonicalLabels}
        \cup {PyListV(<< >>)} \cup {PyListV(<<e>>) : e \in ScalarElems \cup InnerLists}
        \cup {PyListV(<<PyStrV(s), PyStrV(s_Loc)>>) : s \in CanonicalLabels}
        \cup {PyTupleV(<<PyStrV(s_Center)>>), PyIntV(1), PyNoneV, Absent}

Grid22 == Nested(<<2, 2>>)
LotA == PyStrV(<<"A">>)

\* One record per failureType, everything else valid.
LabelRecords == {Rec("dict", Grid22, ft, Absent, Absent) : ft \in FailureTypes}

\* Records for the scan: every path through the loop body.
ScanRecords ==
    {Rec("dict", Nested(<<1, 3>>), PyStrV(s_Center), LotA, PyIntV(1)),
     Rec("dict", Grid22, NdArrayV(<< >>), Absent, Absent),
     Rec("object", Nested(<<3, 0>>), PyListV(<<PyListV(<<PyStrV(s_Scratch)>>)>>),
         LotA, PyIntV(2)),
     Rec("namedtuple", Grid22, PyStrV(<<" ">> \o s_Donut \o <<"\n">>), LotA, Absent),
     Rec("dict", Grid22, PyStrV(s_Bogus), LotA, PyIntV(1)),
     Rec("dict", Nested(<<4>>), PyStrV(s_Center), LotA, PyIntV(1)),
     Rec("object", Nested(<<2, 2, 2>>), PyStrV(s_Center), Absent, Absent),
     Rec("namedtuple", Grid22, Absent, LotA, PyIntV(1)),
     Rec("namedtuple", Absent, PyStrV(s_Center), LotA, PyIntV(1)),
     Rec("dict", Absent, PyStrV(s_Center), Absent, Absent),
     Rec("object", Ragged, PyStrV(s_Center), Absent, Absent),
     Rec("dict", Grid22, PyTupleV(<<PyStrV(s_Center)>>), Absent, Absent),
     Rec("dict", Grid22, PyListV(<<PyBadStr>>), Absent, Absent)}

FrameRows ==
    {Rec("row", Nested(<<1, 3>>), NdArrayV(<<PyStrV(s_Center)>>), LotA, PyIntV(1)),
     Rec("row", Grid22, NdArrayV(<< >>), LotA, PyIntV(2)),
     Rec("row", Grid22, PyNoneV, LotA, PyIntV(1))}

AllColumns == {"waferMap", "failureType", "lotName", "waferIndex"}

FrameColumns == {AllColumns, AllColumns \ {"failureType"}, AllColumns \ {"waferMap"},
                 AllColumns \ {"lotName", "waferIndex"}}

NoContent == [kind |-> "none"]
ListData(records) == [kind |-> "list", records |-> records]
FrameData(columns, rows) == [kind |-> "frame", columns |-> columns, records |-> rows]

Files ==
    {[exists |-> FALSE, content |-> NoContent]}
        \cup {[exists |-> TRUE, content |-> c] :
                c \in {[kind |-> "corrupt"], [kind |-> "scalar"]}}
        \cup {[exists |-> TRUE, content |-> ListData(rs)] :
                rs \in SeqsUpTo(ScanRecords, MaxRecords)}
        \cup {[exists |-> TRUE, content |-> ListData(<<r>>)] : r \in LabelRecords}
        \cup {[exists |-> TRUE, content |-> FrameData(cols, rows)] :
                cols \in FrameColumns, rows \in SeqsUpTo(FrameRows, MaxRecords)}

(***************************************************************************)
(* State machine.                                                          *)
(***************************************************************************)
Unset == [kind |-> "unset"]

Init ==
    /\ file \in Files
    /\ pc = "start"
    /\ error = "none"
    /\ data = Unset
    /\ iterator = << >>
    /\ total = 0
    /\ consumed = 0
    /\ images = << >>
    /\ labels = << >>
    /\ metadata_rows = << >>
    /\ skipped_count = 0
    /\ report = Unset
    /\ result = Unset

Raise(kind) ==
    /\ pc' = "raised"
    /\ error' = kind

\* Mutant of CheckPath: the existence test is left to open().
CheckPath_NoExistsTest ==
    /\ pc = "start"
    /\ pc' = "open"
    /\ UNCHANGED <<file, error, data, iterator, total, consumed, images, labels,
                   metadata_rows, skipped_count, report, result>>

\* Lines 28-29
CheckPath ==
    /\ pc = "start"
    /\ IF ~file.exists
       THEN Raise("FileNotFoundError")
       ELSE pc' = "open" /\ error' = error
    /\ UNCHANGED <<file, data, iterator, total, consumed, images, labels,
                   metadata_rows, skipped_count, report, result>>

\* Lines 31-36: any exception of open() or pickle.load() becomes a ValueError
LoadPickle ==
    /\ pc = "open"
    /\ IF ~file.exists \/ file.content.kind = "corrupt"
       THEN Raise("ValueError") /\ data' = data
       ELSE pc' = "setup" /\ error' = error /\ data' = file.content
    /\ UNCHANGED <<file, iterator, total, consumed, images, labels,
                   metadata_rows, skipped_count, report, result>>

\* len(data), line 59
HasLen(d) == d.kind \in {"list", "frame"}

\* data.itertuples(), line 62: one namedtuple per row, one field per column
Itertuples(d) ==
    [i \in 1..Len(d.records) |->
        LET row == d.records[i]
            Cell(c) == IF c \in d.columns THEN row[c] ELSE Absent
        IN Rec("namedtuple", Cell("waferMap"), Cell("failureType"),
               Cell("lotName"), Cell("waferIndex"))]

\* Lines 38-62
SetupIteration ==
    /\ pc = "setup"
    /\ IF ~HasLen(data)
       THEN /\ Raise("TypeError")
            /\ UNCHANGED <<iterator, total>>
       ELSE /\ pc' = "loop"
            /\ error' = error
            /\ total' = Len(data.records)
            /\ iterator' = IF data.kind = "frame" THEN Itertuples(data)
                           ELSE data.records
    /\ images' = << >>
    /\ labels' = << >>
    /\ metadata_rows' = << >>
    /\ skipped_count' = 0
    /\ UNCHANGED <<file, data, consumed, report, result>>

\* Lines 64-139: one iteration of the record loop
ProcessRecord ==
    /\ pc = "loop"
    /\ consumed < Len(iterator)
    /\ \E out \in RecordOutcomes(iterator[consumed + 1]) :
         IF out.accepted
         THEN LET acc == AcceptSample(images, labels, metadata_rows, out) IN
              /\ images' = acc.images
              /\ labels' = acc.labels
              /\ metadata_rows' = acc.metadata_rows
              /\ skipped_count' = skipped_count
         ELSE /\ skipped_count' = SkipRecord(skipped_count, out)
              /\ UNCHANGED <<images, labels, metadata_rows>>
    /\ consumed' = consumed + 1
    /\ UNCHANGED <<file, pc, error, data, iterator, total, report, result>>

Range(s) == {s[i] : i \in 1..Len(s)}

SetMin(S) == CHOOSE x \in S : \A y \in S : x <= y
SetMax(S) == CHOOSE x \in S : \A y \in S : x >= y

expected_classes == 0..8

\* Mutant of Extrema: widths are read from the row axis.
Extrema_WrongAxis(imgs) ==
    IF Len(imgs) > 0
    THEN LET heights == {imgs[i].shape[1] : i \in 1..Len(imgs)}
             widths == {imgs[i].shape[1] : i \in 1..Len(imgs)}
         IN [h_min |-> SetMin(heights), h_max |-> SetMax(heights),
             w_min |-> SetMin(widths), w_max |-> SetMax(widths)]
    ELSE [h_min |-> 0, h_max |-> 0, w_min |-> 0, w_max |-> 0]

\* Lines 152-161
Extrema(imgs) ==
    IF Len(imgs) > 0
    THEN LET heights == {imgs[i].shape[1] : i \in 1..Len(imgs)}
             widths == {imgs[i].shape[2] : i \in 1..Len(imgs)}
         IN [h_min |-> SetMin(heights), h_max |-> SetMax(heights),
             w_min |-> SetMin(widths), w_max |-> SetMax(widths)]
    ELSE [h_min |-> 0, h_max |-> 0, w_min |-> 0, w_max |-> 0]

\* Counter(labels), line 170
Counter(lbls) ==
    [l \in Range(lbls) |-> Cardinality({i \in 1..Len(lbls) : lbls[i] = l})]

\* Lines 174-177: the percentage printed for each class, in hundredths of a
\* percent, and the denominators the divisions were made with.
Percentages(dist, valid_count) ==
    [pct |-> [l \in DOMAIN dist |->
                IF valid_count > 0 THEN (dist[l] * 10000) \div valid_count ELSE 0],
     divisors |-> {valid_count : l \in {k \in DOMAIN dist : valid_count > 0}}]

\* Lines 141-184
Summarize ==
    /\ pc = "loop"
    /\ consumed = Len(iterator)
    /\ LET unique_labels == Range(labels)
           valid_count == Len(images)
           ext == Extrema(images)
           dist == Counter(labels)
           p == Percentages(dist, valid_count)
       IN /\ report' = [valid_count |-> valid_count,
                        skipped_count |-> skipped_count,
                        warning |-> unique_labels # expected_classes,
                        missing |-> expected_classes \ unique_labels,
                        dist |-> dist,
                        pct |-> p.pct,
                        divisors |-> p.divisors,
                        h_min |-> ext.h_min, h_max |-> ext.h_max,
                        w_min |-> ext.w_min, w_max |-> ext.w_max]
          /\ result' = [kind |-> "returned", images |-> images, labels |-> labels,
                        metadata_df |-> metadata_rows]
    /\ pc' = "done"
    /\ UNCHANGED <<file, error, data, iterator, total, consumed, images, labels,
                   metadata_rows, skipped_count>>

Next == CheckPath \/ LoadPickle \/ SetupIteration \/ ProcessRecord \/ Summarize

Spec == Init /\ [][Next]_vars

(***************************************************************************)
(* Vocabulary of the properties.                                           *)
(***************************************************************************)
\* The taxonomy as section 3 of the specification lists it: the name at
\* position i has the class id i - 1.
Taxonomy ==
    <<s_none, s_Center, s_Donut, s_EdgeLoc, s_EdgeRing, s_Loc, s_Nearfull,
      s_Random, s_Scratch>>

TaxonomyId(s) == (CHOOSE i \in 1..Len(Taxonomy) : Taxonomy[i] = s) - 1

\* The loop is about to process the record `Current`.
AtRecord == pc = "loop" /\ consumed < Len(iterator)
Current == iterator[consumed + 1]

Valid2D(wm) == wm.tag = "nested" /\ Len(wm.dims) = 2
HasLabel(r) == r.failureType \notin {Absent, PyNoneV}
Extractable(r) == Valid2D(r.waferMap) /\ HasLabel(r)

\* The step skips the current record: one more skip, nothing accepted,
\* the loop goes on with the next record.
StepSkips ==
    /\ skipped_count' = skipped_count + 1
    /\ UNCHANGED <<images, labels, metadata_rows>>
    /\ consumed' = consumed + 1
    /\ pc' = "loop"
    /\ error' = "none"

\* The step accepts the current record under the canonical label s.
StepAccepts(s) ==
    /\ Len(images') = Len(images) + 1
    /\ SubSeq(images', 1, Len(images)) = images
    /\ images'[Len(images')].shape = Current.waferMap.dims
    /\ labels' = Append(labels, TaxonomyId(s))
    /\ Len(metadata_rows') = Len(metadata_rows) + 1
    /\ SubSeq(metadata_rows', 1, Len(metadata_rows)) = metadata_rows
    /\ metadata_rows'[Len(metadata_rows')].failureType = s
    /\ metadata_rows'[Len(metadata_rows')].mapped_label = TaxonomyId(s)
    /\ skipped_count' = skipped_count
    /\ consumed' = consumed + 1
    /\ pc' = "loop"

\* The one string of CoreStrings a raw string was padded from.
IsPadded(s, c) == \E l \in Pads, r \in Pads : s = l \o c \o r
Core(s) == CHOOSE c \in CoreStrings : IsPadded(s, c)

(***************************************************************************)
(* C1: while the loop runs and after it, the number of accepted samples    *)
(* plus skipped_count equals the number of records consumed; when the call *)
(* returns, the reported accepted and skipped counts add up to the number  *)
(* of records of the archive.                                              *)
(***************************************************************************)
C1_CountsAddUp ==
    /\ pc \in {"loop", "done"} => Len(images) + skipped_count = consumed
    /\ pc = "done" =>
         /\ report.valid_count + report.skipped_count = Len(file.content.records)
         /\ report.valid_count = Len(result.images)
         /\ consumed = total

C1_Witness ==
    /\ pc = "done"
    /\ report.valid_count = 1
    /\ report.skipped_count = 2
    /\ \E i \in 1..Len(iterator) : Extract(iterator[i]).raised

(***************************************************************************)
(* C2: every accepted sample has a class id in 0..8 and a wafer map of     *)
(* exactly two dimensions, in the accumulating lists and in the returned   *)
(* collection.                                                             *)
(***************************************************************************)
C2_AcceptedWellFormed ==
    /\ \A i \in 1..Len(labels) : labels[i] \in 0..8
    /\ \A i \in 1..Len(images) : images[i].ndim = 2 /\ Len(images[i].shape) = 2
    /\ pc = "done" =>
         /\ \A i \in 1..Len(result.labels) : result.labels[i] \in 0..8
         /\ \A i \in 1..Len(result.images) : Len(result.images[i].shape) = 2

C2_Witness ==
    /\ pc = "done"
    /\ Len(result.images) = 2
    /\ 8 \in Range(result.labels)
    /\ \E i \in 1..Len(iterator) :
         iterator[i].waferMap.tag = "nested" /\ Len(iterator[i].waferMap.dims) = 3

(***************************************************************************)
(* C3: a record with a missing wafer map or label, a wafer map that is not *)
(* 2-D, a label of unrecognized shape, a label string outside the taxonomy *)
(* (such as "Bogus"), or one whose processing raises, is skipped: the step *)
(* adds exactly 1 to skipped_count, leaves images, labels and metadata     *)
(* rows unchanged, raises nothing and continues with the next record.      *)
(***************************************************************************)
MissingField(r) ==
    r.waferMap \in {Absent, PyNoneV} \/ r.failureType \in {Absent, PyNoneV}

NotTwoDimensional(r) ==
    \/ r.waferMap.tag = "ragged"
    \/ r.waferMap.tag = "nested" /\ Len(r.waferMap.dims) # 2

UnrecognizedShape(r) == r.failureType.tag \notin {"ndarray", "list", "str"}

OutsideTaxonomy(r) ==
    /\ r.failureType.tag = "str"
    /\ \E c \in CoreStrings \ CanonicalLabels : IsPadded(r.failureType.s, c)

RaisesInside(r) ==
    \/ r.shape = "namedtuple" /\ r.waferMap # Absent /\ r.failureType = Absent
    \/ r.waferMap.tag = "ragged"
    \/ r.failureType.tag \in {"ndarray", "list"} /\ Len(r.failureType.items) > 0
         /\ r.failureType.items[1] = PyBadStr

Recoverable(r) ==
    \/ MissingField(r)
    \/ NotTwoDimensional(r)
    \/ UnrecognizedShape(r)
    \/ OutsideTaxonomy(r)
    \/ RaisesInside(r)

C3_RecoverableIsSkipped ==
    [][(AtRecord /\ Recoverable(Current)) => StepSkips]_vars

C3_Witness ==
    /\ pc = "loop"
    /\ consumed = 3
    /\ skipped_count = 2
    /\ Len(images) = 1
    /\ iterator[2].failureType = PyStrV(s_Bogus)
    /\ RaisesInside(iterator[3])

(***************************************************************************)
(* C4: a path that does not exist ends the call with FileNotFoundError, a  *)
(* file that cannot be unpickled ends it with ValueError, and in both      *)
(* cases no record has been processed and nothing is returned.             *)
(***************************************************************************)
C4_FatalErrors ==
    /\ (~file.exists /\ pc # "start") =>
          pc = "raised" /\ error = "FileNotFoundError"
    /\ (file.exists /\ file.content.kind = "corrupt" /\ pc \notin {"start", "open"}) =>
          pc = "raised" /\ error = "ValueError"
    /\ (pc = "raised" /\ error \in {"FileNotFoundError", "ValueError"}) =>
          /\ consumed = 0
          /\ images = << >> /\ labels = << >> /\ metadata_rows = << >>
          /\ report = Unset
          /\ result = Unset

C4_Witness == pc = "raised" /\ error = "ValueError" /\ file.exists

(***************************************************************************)
(* C5 as stated: a record with a valid 2-D wafer map whose failureType is  *)
(* an empty nested sequence is accepted with label "none" and class id 0.  *)
(* Stated of the first record of the archive, for the empty sequence [],   *)
(* the sequence holding an empty nested sequence [[]], and the array       *)
(* wrapper with zero elements.                                             *)
(***************************************************************************)
EmptyPlainSequence == PyListV(<< >>)
EmptyNestedInside == PyListV(<<PyListV(<< >>)>>)
EmptyArray == NdArrayV(<< >>)

FirstAcceptedAsNone ==
    /\ Len(images) = 1
    /\ labels = <<0>>
    /\ Len(metadata_rows) = 1
    /\ metadata_rows[1].failureType = s_none
    /\ metadata_rows[1].mapped_label = 0
    /\ skipped_count = 0

C5_EmptyNestedIsNone ==
    (/\ pc = "loop"
     /\ consumed = 1
     /\ Valid2D(iterator[1].waferMap)
     /\ iterator[1].failureType \in {EmptyPlainSequence, EmptyNestedInside, EmptyArray})
        => FirstAcceptedAsNone

(***************************************************************************)
(* C5 amended: a record with a valid 2-D wafer map whose failureType is an *)
(* empty plain sequence [] or an array wrapper with zero elements is       *)
(* accepted with label "none" and class id 0; a plain sequence whose first *)
(* element is an empty nested sequence, [[]], is skipped, since the string *)
(* form "[]" of that element is not in the taxonomy.                       *)
(***************************************************************************)
C5_EmptyIsNone ==
    [][(AtRecord /\ Valid2D(Current.waferMap)) =>
          /\ Current.failureType \in {EmptyPlainSequence, EmptyArray}
                => StepAccepts(s_none)
          /\ Current.failureType = EmptyNestedInside => StepSkips]_vars

C5_Witness ==
    /\ pc = "loop"
    /\ consumed = 1
    /\ Valid2D(iterator[1].waferMap)
    /\ iterator[1].failureType = EmptyPlainSequence
    /\ FirstAcceptedAsNone

(***************************************************************************)
(* C6: for a record that reaches the normalizer, the outcome is the one    *)
(* the shape rules give.  Array wrapper: no element gives "none", else the *)
(* string form of the first element.  Plain sequence: empty gives "none";  *)
(* a first element that is a nonempty nested sequence gives the string     *)
(* form of that sequence's first element; otherwise the string form of the *)
(* first element.  Plain string: itself.  Any other shape: rejected.  The  *)
(* string is trimmed; the record is accepted with the taxonomy id of the   *)
(* trimmed string iff that string is one of the 9 names, else skipped.     *)
(* The oracle below reads the trimmed string off the way the input was     *)
(* built (padding around a core string); the string form of a number, of   *)
(* None and of a list is never a taxonomy name.                            *)
(***************************************************************************)
Rejected == [ok |-> FALSE, label |-> s_empty]

OfStringForm(e) ==
    IF e.tag = "str" /\ Core(e.s) \in CanonicalLabels
    THEN [ok |-> TRUE, label |-> Core(e.s)]
    ELSE Rejected

RuleOutcome(ft) ==
    CASE ft.tag = "ndarray" ->
           IF Len(ft.items) = 0 THEN [ok |-> TRUE, label |-> s_none]
           ELSE OfStringForm(ft.items[1])
      [] ft.tag = "list" ->
           IF Len(ft.items) = 0 THEN [ok |-> TRUE, label |-> s_none]
           ELSE IF ft.items[1].tag = "list" /\ Len(ft.items[1].items) > 0
           THEN OfStringForm(ft.items[1].items[1])
           ELSE OfStringForm(ft.items[1])
      [] ft.tag = "str" -> OfStringForm(ft)
      [] OTHER -> Rejected

C6_NormalizerFollowsRules ==
    [][(AtRecord /\ Extractable(Current)) =>
          LET o == RuleOutcome(Current.failureType) IN
          IF o.ok THEN StepAccepts(o.label) ELSE StepSkips]_vars

C6_Witness ==
    /\ pc = "loop"
    /\ consumed = 1
    /\ iterator[1].failureType =
          PyListV(<<PyListV(<<PyStrV(<<" ">> \o s_EdgeRing \o <<"\n">>)>>)>>)
    /\ labels = <<4>>
    /\ metadata_rows[1].failureType = s_EdgeRing

(***************************************************************************)
(* C7: each of the 9 canonical label strings, given as the raw failureType *)
(* of an otherwise valid record, normalizes to itself: the record is       *)
(* accepted with that string as its label and the id the taxonomy assigns  *)
(* to it, and the label stored in the metadata row normalizes to itself    *)
(* again with the same id.                                                 *)
(***************************************************************************)
NormalizesToItself(row) ==
    LET n == NormalizeFailureType(PyStrV(row.failureType)) IN
    /\ n.kind = "label"
    /\ strip(n.f_label) = row.failureType
    /\ row.failureType \in DOMAIN class_map
    /\ class_map[row.failureType] = row.mapped_label

C7_CanonicalIsFixed ==
    [][(/\ AtRecord
        /\ Valid2D(Current.waferMap)
        /\ Current.failureType.tag = "str"
        /\ Current.failureType.s \in CanonicalLabels) =>
          /\ StepAccepts(Current.failureType.s)
          /\ NormalizesToItself(metadata_rows'[Len(metadata_rows')])]_vars

C7_Witness ==
    /\ pc = "loop"
    /\ consumed = 1
    /\ iterator[1].failureType = PyStrV(s_Nearfull)
    /\ labels = <<6>>
    /\ metadata_rows[1].failureType = s_Nearfull

(***************************************************************************)
(* C8: in the report, h_min <= height(m) <= h_max and w_min <= width(m)    *)
(* <= w_max for every accepted wafer map m, each extremum is the height or *)
(* width of some accepted map, and with no accepted sample (an archive of  *)
(* 0 records included) the four extrema are 0; no percentage was computed  *)
(* by dividing by 0.                                                       *)
(***************************************************************************)
C8_Extrema ==
    pc = "done" =>
       LET imgs == result.images
           idx == 1..Len(imgs)
       IN /\ \A i \in idx :
               /\ report.h_min <= imgs[i].shape[1] /\ imgs[i].shape[1] <= report.h_max
               /\ report.w_min <= imgs[i].shape[2] /\ imgs[i].shape[2] <= report.w_max
          /\ idx # {} =>
               /\ \E i \in idx : imgs[i].shape[1] = report.h_min
               /\ \E i \in idx : imgs[i].shape[1] = report.h_max
               /\ \E i \in idx : imgs[i].shape[2] = report.w_min
               /\ \E i \in idx : imgs[i].shape[2] = report.w_max
          /\ report.valid_count = 0 =>
               /\ report.h_min = 0 /\ report.h_max = 0
               /\ report.w_min = 0 /\ report.w_max = 0
          /\ Len(file.content.records) = 0 =>
               report.valid_count = 0 /\ report.skipped_count = 0
          /\ 0 \notin report.divisors
          /\ DOMAIN report.pct = DOMAIN report.dist

C8_Witness ==
    /\ pc = "done"
    /\ report.valid_count = 3
    /\ report.h_min = 1 /\ report.h_max = 3
    /\ report.w_min = 0 /\ report.w_max = 3
    /\ report.divisors = {3}

(***************************************************************************)
(* C9: after every record, images, labels and metadata rows have the same  *)
(* length; their i-th entries come from one and the same consumed record,  *)
(* in archive order; and row i has mapped_label equal to labels[i] and to  *)
(* the taxonomy id of its failureType.                                     *)
(***************************************************************************)
\* The i-th smallest element of a set of naturals
Nth(S, i) == CHOOSE x \in S : Cardinality({y \in S : y <= x}) = i

FromRecord(i, r) ==
    /\ r.waferMap.tag = "nested"
    /\ images[i].shape = r.waferMap.dims
    /\ metadata_rows[i].lotName = OrDefault(r.lotName, PyStrV(s_empty))
    /\ metadata_rows[i].waferIndex = OrDefault(r.waferIndex, PyIntV(0))
    /\ RuleOutcome(r.failureType) = [ok |-> TRUE, label |-> metadata_rows[i].failureType]

C9_SamplesWhole ==
    /\ Len(images) = Len(labels)
    /\ Len(labels) = Len(metadata_rows)
    /\ \A i \in 1..Len(metadata_rows) :
         /\ metadata_rows[i].mapped_label = labels[i]
         /\ metadata_rows[i].failureType \in CanonicalLabels
         /\ TaxonomyId(metadata_rows[i].failureType) = labels[i]
    /\ pc \in {"loop", "done"} =>
         \E S \in SUBSET (1..consumed) :
            /\ Cardinality(S) = Len(images)
            /\ \A i \in 1..Len(images) : FromRecord(i, iterator[Nth(S, i)])

C9_Witness ==
    /\ pc = "loop"
    /\ consumed = 3
    /\ labels = <<1, 8>>
    /\ skipped_count = 1
    /\ iterator[2].failureType = PyStrV(s_Bogus)
    /\ metadata_rows[1].lotName = LotA
    /\ metadata_rows[2].waferIndex = PyIntV(2)

(***************************************************************************)
(* C10: once the path exists and the archive has been unpickled, the call  *)
(* has no failure path left: it never ends by raising.                     *)
(***************************************************************************)
C10_NoFailureAfterLoad ==
    (file.exists /\ file.content.kind # "corrupt") => pc # "raised"

====
